---------------------------- MODULE Spec2Model ----------------------------
(***************************************************************************)
(* Model of .github/workflows/scripts/compare_versions.py: the semantic    *)
(* version comparison script (parse_version, compare_versions, main).      *)
(*                                                                         *)
(* A Python str is modelled as a sequence of characters; a character is a  *)
(* one-element token such as "1", ".", "-", "v".  The token "sup2" stands  *)
(* for U+00B2 SUPERSCRIPT TWO, a character for which str.isdigit() is true *)
(* while int() rejects it.                                                 *)
(***************************************************************************)
EXTENDS Integers, Sequences, FiniteSets, TLC

VARIABLES pc, current, new, is_higher, stdout, stderr, exit_code

vars == <<pc, current, new, is_higher, stdout, stderr, exit_code>>

-----------------------------------------------------------------------------
(* Characters *)

AsciiDigits == {"0", "1", "2", "3", "4", "5", "6", "7", "8", "9"}

\* Unicode code point of each character of the model's alphabet.
ord(c) ==
    CASE c = "+" -> 43
      [] c = "-" -> 45
      [] c = "." -> 46
      [] c \in AsciiDigits -> 48 + (CHOOSE d \in 0..9 :
                                     c = <<"0","1","2","3","4","5","6","7","8","9">>[d + 1])
      [] c = "a" -> 97
      [] c = "v" -> 118
      [] c = "x" -> 120
      [] c = "sup2" -> 178

\* Value of an ASCII decimal digit.
DigitValue(c) == ord(c) - ord("0")

-----------------------------------------------------------------------------
(* Python str and int primitives, as the script uses them *)

\* Index of the first occurrence of sep in s, 0 when there is none.
find(s, sep) ==
    IF \E i \in 1..Len(s) : s[i] = sep
    THEN CHOOSE i \in 1..Len(s) : s[i] = sep /\ \A j \in 1..(i - 1) : s[j] # sep
    ELSE 0

\* Mutant of lstrip: removes ch everywhere, as str.replace(ch, "") would.
RECURSIVE lstrip_everywhere(_, _)
lstrip_everywhere(s, ch) ==
    IF s = <<>> THEN <<>>
    ELSE IF Head(s) = ch THEN lstrip_everywhere(Tail(s), ch)
    ELSE <<Head(s)>> \o lstrip_everywhere(Tail(s), ch)

\* str.lstrip(ch): removes every leading occurrence of ch.
RECURSIVE lstrip(_, _)
lstrip(s, ch) ==
    IF s # <<>> /\ Head(s) = ch THEN lstrip(Tail(s), ch) ELSE s

\* str.split(sep): all the pieces between occurrences of sep; "" gives [''].
RECURSIVE split(_, _)
split(s, sep) ==
    LET i == find(s, sep) IN
    IF i = 0 THEN <<s>>
    ELSE <<SubSeq(s, 1, i - 1)>> \o split(SubSeq(s, i + 1, Len(s)), sep)

\* str.split(sep, 1): at most one split, at the first occurrence of sep.
split_once(s, sep) ==
    LET i == find(s, sep) IN
    IF i = 0 THEN <<s>>
    ELSE <<SubSeq(s, 1, i - 1), SubSeq(s, i + 1, Len(s))>>

\* str.isdigit(): non-empty and every character is a digit character; the
\* superscript digits count as digit characters.
isdigit(s) ==
    /\ Len(s) > 0
    /\ \A i \in 1..Len(s) : s[i] \in AsciiDigits \cup {"sup2"}

\* Value of a sequence of ASCII decimal digits.
RECURSIVE DecimalValue(_)
DecimalValue(s) ==
    IF s = <<>> THEN 0
    ELSE 10 * DecimalValue(SubSeq(s, 1, Len(s) - 1)) + DigitValue(s[Len(s)])

\* int(s): an optional sign then one or more decimal digits; anything else
\* raises ValueError (ok = FALSE).  Leading zeros are accepted.
int(s) ==
    LET signed == s # <<>> /\ Head(s) \in {"+", "-"}
        digits == IF signed THEN Tail(s) ELSE s
    IN  IF Len(digits) > 0 /\ \A i \in 1..Len(digits) : digits[i] \in AsciiDigits
        THEN [ok |-> TRUE,
              value |-> IF signed /\ Head(s) = "-"
                        THEN 0 - DecimalValue(digits) ELSE DecimalValue(digits)]
        ELSE [ok |-> FALSE, value |-> 0]

\* a < b for two str values: code point order, a proper prefix is smaller.
RECURSIVE str_less(_, _)
str_less(a, b) ==
    IF b = <<>> THEN FALSE
    ELSE IF a = <<>> THEN TRUE
    ELSE IF Head(a) # Head(b) THEN ord(Head(a)) < ord(Head(b))
    ELSE str_less(Tail(a), Tail(b))

-----------------------------------------------------------------------------
(* parse_version *)

\* The result of a call that raised ValueError.
Raised == [ok |-> FALSE, major |-> 0, minor |-> 0, patch |-> 0, prerelease |-> <<>>]

\* Mutant of parse_version: the segment count test is "< 3", so a base
\* with more than three segments is accepted.
parse_version_min_three(version) ==
    LET stripped == lstrip(version, "v")
        parts == split_once(stripped, "-")
        base_version == parts[1]
        prerelease == IF Len(parts) > 1 THEN parts[2] ELSE <<>>
        version_parts == split(base_version, ".")
    IN  IF Len(version_parts) < 3 THEN Raised
        ELSE LET major == int(version_parts[1])
                 minor == int(version_parts[2])
                 patch == int(version_parts[3])
             IN  IF major.ok /\ minor.ok /\ patch.ok
                 THEN [ok |-> TRUE, major |-> major.value, minor |-> minor.value,
                       patch |-> patch.value, prerelease |-> prerelease]
                 ELSE Raised

parse_version(version) ==
    LET stripped == lstrip(version, "v")
        parts == split_once(stripped, "-")
        base_version == parts[1]
        prerelease == IF Len(parts) > 1 THEN parts[2] ELSE <<>>
        version_parts == split(base_version, ".")
    IN  IF Len(version_parts) # 3 THEN Raised
        ELSE LET major == int(version_parts[1])
                 minor == int(version_parts[2])
                 patch == int(version_parts[3])
             IN  IF major.ok /\ minor.ok /\ patch.ok
                 THEN [ok |-> TRUE, major |-> major.value, minor |-> minor.value,
                       patch |-> patch.value, prerelease |-> prerelease]
                 ELSE Raised


-----------------------------------------------------------------------------
(* compare_versions *)

\* parts[i] of the tuple parse_version returns, for i in range(3).
Field(parts, i) ==
    CASE i = 0 -> parts.major
      [] i = 1 -> parts.minor
      [] i = 2 -> parts.patch

\* Mutant of compare_fields: the loop is "for i in range(2)", patch is never
\* compared.
RECURSIVE compare_fields_no_patch(_, _, _)
compare_fields_no_patch(current_parts, new_parts, i) ==
    IF i >= 2 THEN "fallthrough"
    ELSE IF Field(new_parts, i) > Field(current_parts, i) THEN "True"
    ELSE IF Field(new_parts, i) < Field(current_parts, i) THEN "False"
    ELSE compare_fields_no_patch(current_parts, new_parts, i + 1)

\* The loop "for i in range(3)" from index i on: "True" or "False" as soon as
\* a field differs, "fallthrough" when the loop ends without returning.
RECURSIVE compare_fields(_, _, _)
compare_fields(current_parts, new_parts, i) ==
    IF i >= 3 THEN "fallthrough"
    ELSE IF Field(new_parts, i) > Field(current_parts, i) THEN "True"
    ELSE IF Field(new_parts, i) < Field(current_parts, i) THEN "False"
    ELSE compare_fields(current_parts, new_parts, i + 1)

\* Mutant of compare_segments: the final test is ">=", so prereleases with
\* equal segments count as higher.
RECURSIVE compare_segments_ge(_, _, _)
compare_segments_ge(current_segments, new_segments, i) ==
    LET n == IF Len(current_segments) < Len(new_segments)
             THEN Len(current_segments) ELSE Len(new_segments)
    IN
    IF i > n
    THEN IF Len(new_segments) >= Len(current_segments) THEN "True" ELSE "False"
    ELSE
      LET curr_seg == current_segments[i]
          new_seg == new_segments[i]
          curr_is_num == isdigit(curr_seg)
          new_is_num == isdigit(new_seg)
      IN
      IF curr_is_num /\ new_is_num
      THEN IF ~int(new_seg).ok \/ ~int(curr_seg).ok THEN "ValueError"
           ELSE IF int(new_seg).value > int(curr_seg).value THEN "True"
           ELSE IF int(new_seg).value < int(curr_seg).value THEN "False"
           ELSE compare_segments_ge(current_segments, new_segments, i + 1)
      ELSE IF curr_is_num /\ ~new_is_num THEN "True"
      ELSE IF ~curr_is_num /\ new_is_num THEN "False"
      ELSE IF str_less(curr_seg, new_seg) THEN "True"
      ELSE IF str_less(new_seg, curr_seg) THEN "False"
      ELSE compare_segments_ge(current_segments, new_segments, i + 1)

\* Mutant of compare_segments: the branch for an alphanumeric current
\* segment and a numeric new segment returns True.
RECURSIVE compare_segments_alnum_low(_, _, _)
compare_segments_alnum_low(current_segments, new_segments, i) ==
    LET n == IF Len(current_segments) < Len(new_segments)
             THEN Len(current_segments) ELSE Len(new_segments)
    IN
    IF i > n
    THEN IF Len(new_segments) > Len(current_segments) THEN "True" ELSE "False"
    ELSE
      LET curr_seg == current_segments[i]
          new_seg == new_segments[i]
          curr_is_num == isdigit(curr_seg)
          new_is_num == isdigit(new_seg)
      IN
      IF curr_is_num /\ new_is_num
      THEN IF ~int(new_seg).ok \/ ~int(curr_seg).ok THEN "ValueError"
           ELSE IF int(new_seg).value > int(curr_seg).value THEN "True"
           ELSE IF int(new_seg).value < int(curr_seg).value THEN "False"
           ELSE compare_segments_alnum_low(current_segments, new_segments, i + 1)
      ELSE IF curr_is_num /\ ~new_is_num THEN "True"
      ELSE IF ~curr_is_num /\ new_is_num THEN "True"
      ELSE IF str_less(curr_seg, new_seg) THEN "True"
      ELSE IF str_less(new_seg, curr_seg) THEN "False"
      ELSE compare_segments_alnum_low(current_segments, new_segments, i + 1)

\* The loop over range(min(len(current_segments), len(new_segments))) from
\* index i on (1-based here), then the final comparison of the lengths.
RECURSIVE compare_segments(_, _, _)
compare_segments(current_segments, new_segments, i) ==
    LET n == IF Len(current_segments) < Len(new_segments)
             THEN Len(current_segments) ELSE Len(new_segments)
    IN
    IF i > n
    THEN IF Len(new_segments) > Len(current_segments) THEN "True" ELSE "False"
    ELSE
      LET curr_seg == current_segments[i]
          new_seg == new_segments[i]
          curr_is_num == isdigit(curr_seg)
          new_is_num == isdigit(new_seg)
      IN
      IF curr_is_num /\ new_is_num
      THEN IF ~int(new_seg).ok \/ ~int(curr_seg).ok THEN "ValueError"
           ELSE IF int(new_seg).value > int(curr_seg).value THEN "True"
           ELSE IF int(new_seg).value < int(curr_seg).value THEN "False"
           ELSE compare_segments(current_segments, new_segments, i + 1)
      ELSE IF curr_is_num /\ ~new_is_num THEN "True"
      ELSE IF ~curr_is_num /\ new_is_num THEN "False"
      ELSE IF str_less(curr_seg, new_seg) THEN "True"
      ELSE IF str_less(new_seg, curr_seg) THEN "False"
      ELSE compare_segments(current_segments, new_segments, i + 1)

\* Mutant of compare_prerelease: the results of the two stable/prerelease
\* branches are exchanged.
compare_prerelease_swapped(current_prerelease, new_prerelease) ==
    IF current_prerelease = <<>> /\ new_prerelease # <<>> THEN "True"
    ELSE IF current_prerelease # <<>> /\ new_prerelease = <<>> THEN "False"
    ELSE IF current_prerelease # <<>> /\ new_prerelease # <<>>
    THEN compare_segments(split(current_prerelease, "."),
                          split(new_prerelease, "."), 1)
    ELSE "False"

\* The prerelease part of compare_versions, reached when the base versions
\* are equal.  An empty str is falsy.
compare_prerelease(current_prerelease, new_prerelease) ==
    IF current_prerelease = <<>> /\ new_prerelease # <<>> THEN "False"
    ELSE IF current_prerelease # <<>> /\ new_prerelease = <<>> THEN "True"
    ELSE IF current_prerelease # <<>> /\ new_prerelease # <<>>
    THEN compare_segments(split(current_prerelease, "."),
                          split(new_prerelease, "."), 1)
    ELSE "False"

\* compare_versions(current, new): "True", "False", or "ValueError" when the
\* call raises.  current is parsed first.
compare_versions(cur, nw) ==
    LET current_parts == parse_version(cur)
        new_parts == parse_version(nw)
    IN  IF ~current_parts.ok \/ ~new_parts.ok THEN "ValueError"
        ELSE LET r == compare_fields(current_parts, new_parts, 0)
             IN  IF r # "fallthrough" THEN r
                 ELSE compare_prerelease(current_parts.prerelease,
                                         new_parts.prerelease)


-----------------------------------------------------------------------------
(* Argument strings *)

\* Largest value of a major, minor or patch field in the generated versions.
MaxNum == 1
\* Largest number of dot-separated segments in a generated prerelease.
MaxSegs == 2
\* Largest number of leading "v" characters in a generated argument.
MaxV == 1

\* Decimal text of a natural number below 100.
Decimal(n) ==
    LET digit(d) == <<"0","1","2","3","4","5","6","7","8","9">>[d + 1]
    IN  IF n < 10 THEN <<digit(n)>> ELSE <<digit(n \div 10), digit(n % 10)>>

\* sep.join(segs)
RECURSIVE join(_, _)
join(segs, sep) ==
    IF Len(segs) = 0 THEN <<>>
    ELSE IF Len(segs) = 1 THEN segs[1]
    ELSE segs[1] \o <<sep>> \o join(Tail(segs), sep)

\* k copies of "v".
RECURSIVE Vs(_)
Vs(k) == IF k = 0 THEN <<>> ELSE <<"v">> \o Vs(k - 1)

\* major.minor.patch for all field values up to MaxNum, stable and with the
\* prerelease "a".
BaseInputs ==
    { join(<<Decimal(a), Decimal(b), Decimal(c)>>, ".") \o t :
        a \in 0..MaxNum, b \in 0..MaxNum, c \in 0..MaxNum,
        t \in {<<>>, <<"-", "a">>} }

\* Prerelease segments: empty, numeric (one digit, two digits), alphabetic,
\* and a superscript digit.
PreSegs ==
    { <<>>, <<"2">>, <<"1", "0">>, <<"a">>, <<"sup2">> }

\* 1.0.0-<prerelease> for every prerelease of 1..MaxSegs segments.
PreInputs ==
    { <<"1", ".", "0", ".", "0", "-">> \o join(p, ".") :
        p \in UNION { [1..n -> PreSegs] : n \in 1..MaxSegs } }

\* Arguments with one or more leading "v".
VStems ==
    { <<"1", ".", "0", ".", "0">>, <<"1", ".", "0", ".", "1">>, <<"1", ".", "0", ".", "0", "-", "a">>,
      <<"1", ".", "0", ".", "0", "-", "v">>, <<"1", ".", "0">> }

VInputs == { Vs(k) \o t : k \in 1..MaxV, t \in VStems }

\* Arguments parse_version rejects.
BadInputs ==
    { <<>>, <<"1">>, <<"1", ".", "0">>,
      <<"1", ".", "0", ".", "0", ".", "0">>, <<"1", ".", ".", "0">>, <<"1", ".", "0", ".", "x">>,
      <<"x", ".", "0", ".", "0">>, <<"1", ".", "0", ".", "sup2">>, <<"-", "1", ".", "0", ".", "0">>,
      <<"1", ".", "-", "1", ".", "0">>, <<"1", ".", "0", "-", "a">>, <<"1", ".", "0", ".", "x", "-", "a">>,
      <<"1", ".", "0", ".", "0", ".", "0", "-", "a">> }

\* Arguments with a sign, a leading zero or a larger number in the base, and
\* prereleases with a leading zero, a second hyphen or a "v".
OddInputs ==
    { <<"+", "1", ".", "0", ".", "0">>, <<"0", "1", ".", "0", ".", "0">>,
      <<"1", ".", "0", ".", "+", "0">>, <<"1", ".", "0", ".", "1", "0">>,
      <<"1", ".", "0", ".", "2">>, <<"1", ".", "0", ".", "0", "-", "0", "2">>,
      <<"1", ".", "0", ".", "0", "-", "-", "v">>, <<"1", ".", "0", ".", "0", "-", "a", ".", "0", "2">>,
      <<"1", ".", "0", ".", "0", "-", "a", ".", "-", "v">>, <<"1", ".", "0", ".", "0", "-", "a", "-", ".", "2">> }

\* The strings given as --current and --new.
Inputs == BaseInputs \cup PreInputs \cup VInputs \cup BadInputs \cup OddInputs

-----------------------------------------------------------------------------
(* main *)

\* After parser.parse_args(): both arguments are present, nothing is
\* printed, the process has not exited (exit_code -1).
Init ==
    /\ pc = "start"
    /\ current \in Inputs
    /\ new \in Inputs
    /\ is_higher = "unset"
    /\ stdout = <<>>
    /\ stderr = <<>>
    /\ exit_code = -1

\* is_higher = compare_versions(args.current, args.new) returns.
CompareReturns ==
    /\ pc = "start"
    /\ compare_versions(current, new) # "ValueError"
    /\ is_higher' = compare_versions(current, new)
    /\ pc' = "compared"
    /\ UNCHANGED <<current, new, stdout, stderr, exit_code>>

\* compare_versions(args.current, args.new) raises ValueError.
CompareRaises ==
    /\ pc = "start"
    /\ compare_versions(current, new) = "ValueError"
    /\ pc' = "except"
    /\ UNCHANGED <<current, new, is_higher, stdout, stderr, exit_code>>

\* if is_higher: print the result line, sys.exit(0).
ExitHigher ==
    /\ pc = "compared"
    /\ is_higher = "True"
    /\ stdout' = Append(stdout, [line |-> "is higher than", new |-> new,
                                 current |-> current])
    /\ exit_code' = 0
    /\ pc' = "exited"
    /\ UNCHANGED <<current, new, is_higher, stderr>>

\* else: print the result line, sys.exit(1).
ExitNotHigher ==
    /\ pc = "compared"
    /\ is_higher # "True"
    /\ stdout' = Append(stdout, [line |-> "is NOT higher than", new |-> new,
                                 current |-> current])
    /\ exit_code' = 1
    /\ pc' = "exited"
    /\ UNCHANGED <<current, new, is_higher, stderr>>

\* except ValueError: print the error to sys.stderr, sys.exit(2).
ExitError ==
    /\ pc = "except"
    /\ stderr' = Append(stderr, [line |-> "Error"])
    /\ exit_code' = 2
    /\ pc' = "exited"
    /\ UNCHANGED <<current, new, is_higher, stdout>>

Next ==
    \/ CompareReturns
    \/ CompareRaises
    \/ ExitHigher
    \/ ExitNotHigher
    \/ ExitError

Spec == Init /\ [][Next]_vars

\* The arguments of the chains of three versions: 1.0.0 and 1.0.1, stable and
\* prerelease, 1.0.0 with an empty segment and with a leading zero, and
\* 1.0.0 with every prerelease of 1..MaxSegs non-empty segments.
ChainInputs ==
    { <<"1", ".", "0", ".", "0">>, <<"1", ".", "0", ".", "1">>,
      <<"1", ".", "0", ".", "1", "-", "a">>,
      <<"1", ".", "0", ".", "0", "-", "a", ".">>,
      <<"1", ".", "0", ".", "0", "-", "0", "2">> }
    \cup { <<"1", ".", "0", ".", "0", "-">> \o join(p, ".") :
             p \in UNION { [1..n -> PreSegs \ {<<>>}] : n \in 1..MaxSegs } }

InitChain ==
    /\ pc = "start"
    /\ current \in ChainInputs
    /\ new \in ChainInputs
    /\ is_higher = "unset"
    /\ stdout = <<>>
    /\ stderr = <<>>
    /\ exit_code = -1

\* main on the arguments of the chains.
SpecChain == InitChain /\ [][Next]_vars


-----------------------------------------------------------------------------
(* Reference notions the properties are stated with *)

\* s is accepted by parse_version.
Valid(s) == parse_version(s).ok

\* The call has returned (the result is in is_higher).
Returned == pc = "compared" \/ (pc = "exited" /\ exit_code # 2)

\* The call compare_versions(args.current, args.new) has just ended, by
\* returning or by raising.
Called == pc = "compared" \/ pc = "except"

\* The text of s before its first "-", leading "v" characters removed.
RefBase(s) ==
    LET k == CHOOSE k \in 0..Len(s) :
                 /\ \A i \in 1..k : s[i] = "v"
                 /\ (k < Len(s) => s[k + 1] # "v")
        t == SubSeq(s, k + 1, Len(s))
        H == {i \in 1..Len(t) : t[i] = "-"}
    IN  IF H = {} THEN t
        ELSE SubSeq(t, 1, (CHOOSE i \in H : \A j \in H : i <= j) - 1)

\* A decimal numeral of a non-negative integer: digits, optionally after "+".
RefNumeral(seg) ==
    LET body == IF seg # <<>> /\ Head(seg) = "+" THEN Tail(seg) ELSE seg
    IN  body # <<>> /\ \A i \in 1..Len(body) : body[i] \in AsciiDigits

\* The base of s is three dot-separated numerals of non-negative integers.
RefWellFormed(s) ==
    LET b == RefBase(s)
        D == {i \in 1..Len(b) : b[i] = "."}
    IN  /\ Cardinality(D) = 2
        /\ LET d1 == CHOOSE i \in D : \A j \in D : i <= j
               d2 == CHOOSE i \in D : \A j \in D : j <= i
           IN  /\ RefNumeral(SubSeq(b, 1, d1 - 1))
               /\ RefNumeral(SubSeq(b, d1 + 1, d2 - 1))
               /\ RefNumeral(SubSeq(b, d2 + 1, Len(b)))

\* The (major, minor, patch) of a parsed version.
Triple(s) ==
    LET p == parse_version(s) IN <<p.major, p.minor, p.patch>>

\* new's triple is above current's at the first field where they differ.
RefTripleHigher(c, n) ==
    LET D == {i \in 1..3 : c[i] # n[i]}
        k == CHOOSE i \in D : \A j \in D : i <= j
    IN  D # {} /\ n[k] > c[k]

\* Purely numeric segment: one or more ASCII decimal digits.
RefNumeric(seg) ==
    seg # <<>> /\ \A i \in 1..Len(seg) : seg[i] \in AsciiDigits

\* Code point order on str, stated without recursion.
RefStrLess(a, b) ==
    \E k \in 1..Len(b) :
        /\ k <= Len(a) + 1
        /\ \A i \in 1..(k - 1) : a[i] = b[i]
        /\ (k <= Len(a) => ord(a[k]) < ord(b[k]))

\* The two segments of a pair are equal (numeric ones by value).
RefSegSame(x, y) ==
    IF RefNumeric(x) /\ RefNumeric(y) THEN DecimalValue(x) = DecimalValue(y)
    ELSE x = y

\* Segment y is higher than segment x.
RefSegHigher(x, y) ==
    IF RefNumeric(x) /\ RefNumeric(y) THEN DecimalValue(y) > DecimalValue(x)
    ELSE IF RefNumeric(x) THEN TRUE
    ELSE IF RefNumeric(y) THEN FALSE
    ELSE RefStrLess(x, y)

\* The dot-separated segments of a prerelease, stated without recursion.
RefSegments(p) ==
    LET D == {i \in 1..Len(p) : p[i] = "."}
        n == Cardinality(D) + 1
        \* position of the k-th dot; 0 and Len(p) + 1 at the two ends
        dot(k) == IF k = 0 THEN 0
                  ELSE IF k = n THEN Len(p) + 1
                  ELSE CHOOSE i \in D : Cardinality({j \in D : j < i}) = k - 1
    IN  [k \in 1..n |-> SubSeq(p, dot(k - 1) + 1, dot(k) - 1)]

\* The reference prerelease rule: "True" when ns is higher than cs.
RefPrereleaseHigher(cs, ns) ==
    LET n == IF Len(cs) < Len(ns) THEN Len(cs) ELSE Len(ns)
        D == {i \in 1..n : ~RefSegSame(cs[i], ns[i])}
        k == CHOOSE i \in D : \A j \in D : i <= j
    IN  IF D = {} THEN Len(ns) > Len(cs) ELSE RefSegHigher(cs[k], ns[k])

\* True/False as compare_versions returns them.
BoolText(b) == IF b THEN "True" ELSE "False"


-----------------------------------------------------------------------------
(* Properties *)

\* C1: main exits 0 exactly when both arguments parse and new is strictly
\* greater than current, 1 exactly when both parse and new is not greater,
\* and 2 exactly when at least one argument is malformed; on exit 2 the
\* error is on the error stream and nothing was written to standard output.
C1_ExitCodes ==
    pc = "exited" =>
        LET both == Valid(current) /\ Valid(new) IN
        /\ exit_code = 0 <=> (both /\ is_higher = "True")
        /\ exit_code = 1 <=> (both /\ is_higher = "False")
        /\ exit_code = 2 <=> ~both
        /\ exit_code = 2 => (stderr # <<>> /\ stdout = <<>>)

\* C2: when the triples of two valid versions differ, the call returns, and
\* the result is decided by the first unequal field among major, minor,
\* patch, whatever the prereleases are.
C2_FirstUnequalFieldDecides ==
    (Called /\ Valid(current) /\ Valid(new) /\ Triple(current) # Triple(new)) =>
        /\ pc = "compared"
        /\ is_higher = BoolText(RefTripleHigher(Triple(current), Triple(new)))

\* C2 witness: a prerelease with a higher patch beat a stable version with
\* the same major and minor, and the reversed shape was rejected.
C2_Witness ==
    /\ pc = "compared"
    /\ is_higher = "True"
    /\ parse_version(current).prerelease = <<>>
    /\ parse_version(new).prerelease # <<>>
    /\ parse_version(new).major = parse_version(current).major
    /\ parse_version(new).minor = parse_version(current).minor
    /\ parse_version(new).patch > parse_version(current).patch

\* C3: two valid version strings that parse to the same major, minor, patch
\* and prerelease compare as not greater, in both argument orders.
C3_EqualIsNotGreater ==
    (Called /\ Valid(current) /\ Valid(new)
       /\ parse_version(current) = parse_version(new)) =>
        /\ pc = "compared"
        /\ is_higher = "False"
        /\ compare_versions(new, current) = "False"

\* x is the stable version string y followed by "-" and a non-empty
\* prerelease.
PrereleaseOf(x, y) ==
    /\ Valid(y)
    /\ find(y, "-") = 0
    /\ Len(x) > Len(y) + 1
    /\ SubSeq(x, 1, Len(y) + 1) = y \o <<"-">>

\* C4: a stable version is greater than any prerelease of the same
\* major.minor.patch: with current the prerelease and new the stable version
\* the result is True, and with the arguments exchanged it is False.
C4_StableBeatsPrerelease ==
    /\ (Called /\ PrereleaseOf(current, new)) =>
         (pc = "compared" /\ is_higher = "True")
    /\ (Called /\ PrereleaseOf(new, current)) =>
         (pc = "compared" /\ is_higher = "False")

\* C4 witness: the stable version won over a prerelease holding a
\* superscript digit.
C4_Witness ==
    /\ pc = "exited"
    /\ exit_code = 0
    /\ PrereleaseOf(current, new)
    /\ \E i \in 1..Len(current) : current[i] = "sup2"

\* Both versions are valid, have the same triple and carry a prerelease.
BothPrerelease ==
    /\ Valid(current) /\ Valid(new)
    /\ Triple(current) = Triple(new)
    /\ parse_version(current).prerelease # <<>>
    /\ parse_version(new).prerelease # <<>>

\* C5: with equal triples and two prereleases, the call returns the result
\* of the reference rule on the dot-separated segments.
C5_PrereleaseReferenceRule ==
    (Called /\ BothPrerelease) =>
        /\ pc = "compared"
        /\ is_higher = BoolText(RefPrereleaseHigher(
                             RefSegments(parse_version(current).prerelease),
                             RefSegments(parse_version(new).prerelease)))

WithV(s) == <<"v">> \o s

\* The text of s after its first "-"; empty when s has none.
RefPrereleaseText(s) ==
    IF find(s, "-") = 0 THEN <<>> ELSE SubSeq(s, find(s, "-") + 1, Len(s))

\* C7: for a valid version string that does not start with "v", a "v" in
\* front changes nothing in what parse_version returns, so the comparison
\* gives the same answer with either, both or neither argument prefixed; the
\* prerelease keeps every "v" it contains.
C7_PrefixIgnored ==
    Called =>
      /\ \A s \in {current, new} :
           /\ (Valid(s) /\ Head(s) # "v") =>
                parse_version(WithV(s)) = parse_version(s)
           /\ Valid(s) => parse_version(s).prerelease = RefPrereleaseText(s)
      /\ (Valid(current) /\ Valid(new) /\ Head(current) # "v" /\ Head(new) # "v") =>
           LET result == IF pc = "compared" THEN is_higher ELSE "ValueError" IN
           /\ compare_versions(WithV(current), new) = result
           /\ compare_versions(current, WithV(new)) = result
           /\ compare_versions(WithV(current), WithV(new)) = result

\* C7 witness: a "v"-prefixed current with a "v" in its prerelease was
\* compared with an unprefixed new.
C7_Witness ==
    /\ pc = "compared"
    /\ Head(current) = "v"
    /\ \E i \in 1..Len(parse_version(current).prerelease) :
           parse_version(current).prerelease[i] = "v"
    /\ Valid(new) /\ Head(new) # "v"

\* C8: when the bases of both arguments are valid triples, main ends with a
\* boolean result (exit 0 or 1), whatever the prerelease text is.
C8_PrereleaseNeverFails ==
    (pc # "start" /\ RefWellFormed(current) /\ RefWellFormed(new)) =>
        /\ pc # "except"
        /\ pc = "exited" => exit_code \in {0, 1}

\* The two versions are equal: same triple, and prereleases both empty or
\* with the same number of segments, equal pair by pair.
RefSameVersion(a, b) ==
    /\ Triple(a) = Triple(b)
    /\ LET pa == parse_version(a).prerelease
           pb == parse_version(b).prerelease
       IN  \/ pa = <<>> /\ pb = <<>>
           \/ /\ pa # <<>> /\ pb # <<>>
              /\ Len(RefSegments(pa)) = Len(RefSegments(pb))
              /\ \A i \in 1..Len(RefSegments(pa)) :
                     RefSegSame(RefSegments(pa)[i], RefSegments(pb)[i])

\* C9: for two valid versions the comparison is never True in both argument
\* orders, and it is False in both orders only for equal versions.
C9_Asymmetry ==
    pc = "compared" =>
        /\ is_higher = "True" => compare_versions(new, current) # "True"
        /\ (is_higher = "False" /\ compare_versions(new, current) = "False") =>
               RefSameVersion(current, new)

\* C9 witness: two different strings, numeric segments equal by value, were
\* found not greater, and so is the exchanged pair.
C9_Witness ==
    /\ pc = "compared"
    /\ is_higher = "False"
    /\ compare_versions(new, current) = "False"
    /\ parse_version(current).prerelease # parse_version(new).prerelease
    /\ parse_version(current).prerelease # <<>>

\* C10: for valid a, b, c, if b is greater than a and c is greater than b,
\* then c is greater than a (a, b are --current, --new; c is any argument).
C10_Transitivity ==
    (pc = "compared" /\ is_higher = "True") =>
        \A c \in ChainInputs :
            compare_versions(new, c) = "True" =>
                compare_versions(current, c) = "True"

\* C10 witness: a chain through a numeric segment, an alphabetic segment and
\* a longer prerelease.
C10_Witness ==
    /\ pc = "compared"
    /\ is_higher = "True"
    /\ RefNumeric(parse_version(current).prerelease)
    /\ Len(RefSegments(parse_version(new).prerelease)) = 1
    /\ ~RefNumeric(parse_version(new).prerelease)
    /\ \E c \in ChainInputs :
         /\ Len(RefSegments(parse_version(c).prerelease)) = 2
         /\ compare_versions(new, c) = "True"
         /\ compare_versions(current, c) = "True"

=============================================================================
